---- MODULE Spec2Model ----
(***************************************************************************)
(* Model of utils/data_fetcher.py: the DataFetcher facade over the         *)
(* market-data provider (yfinance) and the pandas post-processing.         *)
(*                                                                         *)
(* An OHLCV frame is a sequence of rows in ascending timestamp order; a    *)
(* row is [t, Open, High, Low, Close, Volume] with t the hour counted from *)
(* midnight of the first day.  A missing field (numpy NaN) is NaN.         *)
(* Each facade call is one action: it draws its arguments and the          *)
(* provider's answer, and leaves its result in ret, what it printed in     *)
(* stdout and the exception that reached the caller (if any) in exc.       *)
(***************************************************************************)
EXTENDS Integers, Sequences, FiniteSets, TLC

VARIABLES
  nse_stocks,   \* the list object self.nse_stocks
  held,         \* TRUE once a caller holds the object get_nse_stock_list returned
  nmut,         \* number of caller mutations so far (bounded)
  op,           \* name of the last facade call
  args,         \* its arguments together with the provider's answer
  ret,          \* its return value
  exc,          \* "none", or the exception that propagated to the caller
  stdout,       \* the lines the call printed
  pc,           \* "idle", or "loop" while get_multiple_stocks_data iterates
  idx,          \* position of the for loop in symbols (1-based)
  stock_data,   \* the dict being built by get_multiple_stocks_data
  attempts      \* the get_stock_data calls made by the batch, in order

vars == <<nse_stocks, held, nmut, op, args, ret, exc, stdout, pc, idx,
          stock_data, attempts>>

----------------------------------------------------------------------------
(* Bounds *)
MaxHour == 8          \* hourly timestamps range over 0..MaxHour
MaxBars == 2          \* rows in a provider frame
MaxMissing == 1       \* NaN cells in a provider frame
MaxSymbols == 3       \* length of a batch's symbol list
MaxMutations == 2     \* caller mutations of a held list

----------------------------------------------------------------------------
(* Data *)
NaN == 0 - 1
None == [kind |-> "None"]
Fields == {"Open", "High", "Low", "Close", "Volume"}

NSE_STOCKS ==
  << "ADANIENT.NS", "ADANIPORTS.NS", "APOLLOHOSP.NS", "ASIANPAINT.NS", "AXISBANK.NS",
     "BAJAJ-AUTO.NS", "BAJAJFINSV.NS", "BAJFINANCE.NS", "BHARTIARTL.NS", "BPCL.NS",
     "BRITANNIA.NS", "CIPLA.NS", "COALINDIA.NS", "DIVISLAB.NS", "DRREDDY.NS",
     "EICHERMOT.NS", "GRASIM.NS", "HCLTECH.NS", "HDFCBANK.NS", "HDFCLIFE.NS",
     "HEROMOTOCO.NS", "HINDALCO.NS", "HINDUNILVR.NS", "ICICIBANK.NS", "ICICIGI.NS",
     "ICICIPRULI.NS", "INDUSINDBK.NS", "INFY.NS", "ITC.NS", "JSWSTEEL.NS",
     "KOTAKBANK.NS", "LT.NS", "LTIM.NS", "M&M.NS", "MARUTI.NS",
     "NESTLEIND.NS", "NTPC.NS", "ONGC.NS", "POWERGRID.NS", "RELIANCE.NS",
     "SBILIFE.NS", "SBIN.NS", "SUNPHARMA.NS", "TATACONSUM.NS", "TATAMOTORS.NS",
     "TATASTEEL.NS", "TCS.NS", "TECHM.NS", "TITAN.NS", "ULTRACEMCO.NS",
     "UPL.NS", "WIPRO.NS", "DLF.NS", "SHRIRAMFIN.NS", "CHOLAFIN.NS",
     "BAJAJHLDNG.NS", "JINDALSTEL.NS", "RECLTD.NS", "ETERNAL.NS", "PFC.NS",
     "LODHA.NS", "SWIGGY.NS", "JIOFIN.NS", "ADANIPOWER.NS", "VBL.NS",
     "BANKBARODA.NS", "PNB.NS", "MOTHERSON.NS", "DMART.NS", "SIEMENS.NS",
     "TATAPOWER.NS", "JSWENERGY.NS", "ADANIGREEN.NS", "NAUKRI.NS", "ABB.NS",
     "TRENT.NS", "HAVELLS.NS", "IOC.NS", "SHREECEM.NS", "TVSMOTOR.NS",
     "AMBUJACEM.NS", "VEDL.NS", "BOSCHLTD.NS", "INDHOTEL.NS",
     "GAIL.NS", "GODREJCP.NS", "IRFC.NS", "ZYDUSLIFE.NS",
     "CANBK.NS", "BEL.NS", "DABUR.NS", "HAL.NS", "CGPOWER.NS" >>

(* Symbols a caller passes: two of the list and one the provider does not *)
(* know.                                                                   *)
Symbols == {"RELIANCE.NS", "TCS.NS", "BOGUS.NS"}
Intervals == {"15m", "1h", "4h", "1d", "1wk"}

(* One provider row at hour t, price level v. *)
Bar(t, v) ==
  [t |-> t, Open |-> 10 * v, High |-> 10 * v + 2, Low |-> 10 * v - 2,
   Close |-> 10 * v + 1, Volume |-> v]

Min(S) == CHOOSE x \in S : \A y \in S : x <= y
Max(S) == CHOOSE x \in S : \A y \in S : x >= y

RECURSIVE SortedSeq(_)
SortedSeq(S) == IF S = {} THEN <<>> ELSE <<Min(S)>> \o SortedSeq(S \ {Min(S)})

(* A frame with a row at each hour of H; prices rising or falling in time. *)
Frame(H, rising) ==
  LET hs == SortedSeq(H)
  IN  [i \in 1..Len(hs) |->
         Bar(hs[i], IF rising THEN hs[i] + 1 ELSE MaxHour + 24 - hs[i])]

(* The frame s with the cells of C (pairs <<row, field>>) missing. *)
Blank(s, C) ==
  LET cell(i, f) == IF <<i, f>> \in C THEN NaN ELSE s[i][f]
  IN  [i \in 1..Len(s) |->
         [t |-> s[i].t, Open |-> cell(i, "Open"), High |-> cell(i, "High"),
          Low |-> cell(i, "Low"), Close |-> cell(i, "Close"),
          Volume |-> cell(i, "Volume")]]

Cells(s) == (1..Len(s)) \X Fields

(* The subsets of S with at most n elements. *)
RECURSIVE UpTo(_, _)
UpTo(S, n) ==
  IF n = 0 THEN {{}}
  ELSE LET P == UpTo(S, n - 1) IN P \cup {X \cup {x} : X \in P, x \in S}

CleanFrames == {Frame(H, r) : H \in UpTo(0..MaxHour, MaxBars), r \in BOOLEAN}

(* 24 hourly rows 00:00-23:00 of one day, levels 1..24. *)
FullDay == [i \in 1..24 |-> Bar(i - 1, i)]

(* What the provider does on a request: raise, or answer with a frame. *)
Answer(s) == [kind |-> "data", data |-> s]
Error == [kind |-> "error"]
CleanResponses == {Error} \cup {Answer(s) : s \in CleanFrames}

(* The frame s with up to n of its cells missing, in every way. *)
WithMissing(s, n) == {Blank(s, C) : C \in UpTo(Cells(s), n)}

(* The answer resp with up to n cells of its frame missing. *)
Answers(resp, n) ==
  IF resp.kind = "error" THEN {resp}
  ELSE {Answer(s) : s \in WithMissing(resp.data, n)}

----------------------------------------------------------------------------
(* pandas operations used by the module *)

IsComplete(row) == \A f \in Fields : row[f] # NaN

(* DataFrame.dropna(): drop every row with a missing field. *)
dropna(s) == SelectSeq(s, IsComplete)

(* The non-missing values of column f over the rows of s, in row order. *)
Column(s, f) ==
  LET RECURSIVE col(_)
      col(i) == IF i > Len(s) THEN <<>>
                ELSE (IF s[i][f] = NaN THEN <<>> ELSE <<s[i][f]>>) \o col(i + 1)
  IN  col(1)

Range(q) == {q[i] : i \in 1..Len(q)}

RECURSIVE SumSeq(_)
SumSeq(q) == IF q = <<>> THEN 0 ELSE q[1] + SumSeq(Tail(q))

(* 'first', 'last', 'max', 'min' skip missing values and give NaN when     *)
(* nothing is left; 'sum' skips them and gives 0.                           *)
AggFirst(q) == IF q = <<>> THEN NaN ELSE q[1]
AggLast(q) == IF q = <<>> THEN NaN ELSE q[Len(q)]
AggMax(q) == IF q = <<>> THEN NaN ELSE Max(Range(q))
AggMin(q) == IF q = <<>> THEN NaN ELSE Min(Range(q))
AggSum(q) == SumSeq(q)

(* Start of the '4H' bin holding hour t; bins start at midnight. *)
Bucket(t) == 4 * (t \div 4)

InBucket(s, b) ==
  LET RECURSIVE sel(_)
      sel(i) == IF i > Len(s) THEN <<>>
                ELSE (IF Bucket(s[i].t) = b THEN <<s[i]>> ELSE <<>>) \o sel(i + 1)
  IN  sel(1)

(* The aggregation with 'Open' taken as 'last' instead of 'first'. *)
AggRow_open_last(s, b) ==
  LET rows == InBucket(s, b)
  IN  [t |-> b,
       Open |-> AggLast(Column(rows, "Open")),
       High |-> AggMax(Column(rows, "High")),
       Low |-> AggMin(Column(rows, "Low")),
       Close |-> AggLast(Column(rows, "Close")),
       Volume |-> AggSum(Column(rows, "Volume"))]

AggRow(s, b) ==
  LET rows == InBucket(s, b)
  IN  [t |-> b,
       Open |-> AggFirst(Column(rows, "Open")),
       High |-> AggMax(Column(rows, "High")),
       Low |-> AggMin(Column(rows, "Low")),
       Close |-> AggLast(Column(rows, "Close")),
       Volume |-> AggSum(Column(rows, "Volume"))]

(* hourly_data.resample('4H').agg({...}): one row per bin from the first   *)
(* row's bin to the last row's bin, empty bins included.                    *)
resample_agg(s) ==
  IF s = <<>> THEN <<>>
  ELSE LET b0 == Bucket(s[1].t)
           n == (Bucket(s[Len(s)].t) - b0) \div 4 + 1
       IN  [k \in 1..n |-> AggRow(s, b0 + 4 * (k - 1))]

----------------------------------------------------------------------------
(* _resample_to_4h returning an empty frame from its except clause. *)
resample_to_4h_empty_on_failure(hourly_data, raises) ==
  IF raises
    THEN [ret |-> <<>>, out |-> <<<<"Error resampling to 4h">>>>, exc |-> "none"]
    ELSE [ret |-> dropna(resample_agg(hourly_data)), out |-> <<>>, exc |-> "none"]

(* DataFetcher._resample_to_4h.  raises: the pandas call raised (the frame  *)
(* lacks a column or a datetime index, or pandas rejects the '4H' alias).   *)
resample_to_4h(hourly_data, raises) ==
  IF raises
    THEN [ret |-> hourly_data, out |-> <<<<"Error resampling to 4h">>>>, exc |-> "none"]
    ELSE [ret |-> dropna(resample_agg(hourly_data)), out |-> <<>>, exc |-> "none"]

(* interval_map without the "4h" entry: the provider is asked for "4h". *)
interval_map_no_4h(interval) == interval

interval_map(interval) ==
  CASE interval = "15m" -> "15m"
    [] interval = "1h" -> "1h"
    [] interval = "4h" -> "1h"
    [] interval = "1d" -> "1d"
    [] OTHER -> interval

(* get_stock_data without its except clause: a provider error propagates. *)
get_stock_data_unguarded(symbol, period, interval, resp, raises) ==
  LET yf_interval == interval_map(interval)
      req == [symbol |-> symbol, period |-> period, interval |-> yf_interval]
  IN  IF resp.kind = "error"
        THEN [ret |-> None, req |-> req, exc |-> "Exception", resampled |-> FALSE,
              out |-> <<>>]
      ELSE IF resp.data = <<>>
        THEN [ret |-> None, req |-> req, exc |-> "none", resampled |-> FALSE,
              out |-> <<>>]
      ELSE IF interval = "4h" /\ yf_interval = "1h"
        THEN LET r == resample_to_4h(resp.data, raises)
             IN  [ret |-> [kind |-> "data", data |-> dropna(r.ret)], req |-> req,
                  exc |-> "none", resampled |-> TRUE, out |-> r.out]
      ELSE [ret |-> [kind |-> "data", data |-> dropna(resp.data)], req |-> req,
            exc |-> "none", resampled |-> FALSE, out |-> <<>>]

(* DataFetcher.get_stock_data.  resp is the provider's answer to            *)
(* ticker.history(period, yf_interval); req is the request it was sent.     *)
get_stock_data(symbol, period, interval, resp, raises) ==
  LET yf_interval == interval_map(interval)
      req == [symbol |-> symbol, period |-> period, interval |-> yf_interval]
  IN  IF resp.kind = "error"
        THEN [ret |-> None, req |-> req, exc |-> "none", resampled |-> FALSE,
              out |-> <<<<"Error fetching data for", symbol>>>>]
      ELSE IF resp.data = <<>>
        THEN [ret |-> None, req |-> req, exc |-> "none", resampled |-> FALSE,
              out |-> <<>>]
      ELSE IF interval = "4h" /\ yf_interval = "1h"
        THEN LET r == resample_to_4h(resp.data, raises)
             IN  [ret |-> [kind |-> "data", data |-> dropna(r.ret)], req |-> req,
                  exc |-> "none", resampled |-> TRUE, out |-> r.out]
      ELSE [ret |-> [kind |-> "data", data |-> dropna(resp.data)], req |-> req,
            exc |-> "none", resampled |-> FALSE, out |-> <<>>]

----------------------------------------------------------------------------
(* validate_symbol returning "a frame came back" instead of "not empty". *)
validate_symbol_any_frame(symbol, resp) ==
  LET req == [symbol |-> symbol, period |-> "5d", interval |-> "1d"]
  IN  IF resp.kind = "error"
        THEN [ret |-> FALSE, exc |-> "none", req |-> req,
              out |-> <<<<"Error validating symbol", symbol>>>>]
        ELSE [ret |-> TRUE, exc |-> "none", req |-> req, out |-> <<>>]

(* DataFetcher.validate_symbol: resp answers ticker.history("5d", "1d"). *)
validate_symbol(symbol, resp) ==
  LET req == [symbol |-> symbol, period |-> "5d", interval |-> "1d"]
  IN  IF resp.kind = "error"
        THEN [ret |-> FALSE, exc |-> "none", req |-> req,
              out |-> <<<<"Error validating symbol", symbol>>>>]
        ELSE [ret |-> resp.data # <<>>, exc |-> "none", req |-> req, out |-> <<>>]

----------------------------------------------------------------------------
(* DataFetcher.get_latest_price.  The provider's quote metadata is a dict:  *)
(* a function from the keys it holds to numbers.                             *)
QuoteKeys == {"currentPrice", "previousClose", "volume", "marketCap"}
QuoteValues == {0, 90, 100}
Infos == UNION {[K -> QuoteValues] : K \in SUBSET QuoteKeys}
Quotes == {Error} \cup {[kind |-> "info", info |-> i] : i \in Infos}

(* The condition written as a membership test: 0 passes it. *)
Truthy_key_present(info, key) == key \in DOMAIN info

(* dict.get(key, default) *)
Get(info, key, default) == IF key \in DOMAIN info THEN info[key] ELSE default

(* info.get(key) used as a condition: None and 0 are false. *)
Truthy(info, key) == key \in DOMAIN info /\ info[key] # 0

(* The float (a / b) * 100, kept exact as the fraction num/den. *)
Percent(a, b) == [num |-> a * 100, den |-> b]

get_latest_price(symbol, resp) ==
  IF resp.kind = "error"
    THEN [ret |-> None, exc |-> "none",
          out |-> <<<<"Error fetching latest price for", symbol>>>>]
    ELSE LET info == resp.info
             diff == Get(info, "currentPrice", 0) - Get(info, "previousClose", 0)
         IN  [ret |-> [kind |-> "snapshot",
                       symbol |-> symbol,
                       current_price |-> Get(info, "currentPrice", 0),
                       previous_close |-> Get(info, "previousClose", 0),
                       change |-> diff,
                       change_percent |->
                         IF Truthy(info, "previousClose")
                           THEN Percent(diff, Get(info, "previousClose", 1))
                           ELSE [num |-> 0, den |-> 1],
                       volume |-> Get(info, "volume", 0),
                       market_cap |-> Get(info, "marketCap", 0)],
              exc |-> "none", out |-> <<>>]

----------------------------------------------------------------------------
(* DataFetcher.check_market_hours.  now is datetime.now(): the local clock. *)
OpenHour == 9
OpenMinute == 15
CloseHour == 15
CloseMinute == 30
Saturday == 5

Clocks ==
  [weekday : 0..6, hour : 0..23, minute : 0..59,
   second : {0, 1, 59}, microsecond : {0, 1, 999999}]

(* A time of day as <<second of the day, microsecond>>; datetimes of one *)
(* date compare by it, lexicographically.                                   *)
TimeOfDay(h, m, s, us) == <<(h * 60 + m) * 60 + s, us>>
(* <= written as <. *)
NotAfter_strict(a, b) == a[1] < b[1] \/ (a[1] = b[1] /\ a[2] < b[2])

NotAfter(a, b) == a[1] < b[1] \/ (a[1] = b[1] /\ a[2] <= b[2])

check_market_hours(now) ==
  LET t == TimeOfDay(now.hour, now.minute, now.second, now.microsecond)
      market_open == TimeOfDay(OpenHour, OpenMinute, 0, 0)
      market_close == TimeOfDay(CloseHour, CloseMinute, 0, 0)
      is_weekday == now.weekday < Saturday
      is_trading_hours == NotAfter(market_open, t) /\ NotAfter(t, market_close)
  IN  [ret |-> is_weekday /\ is_trading_hours, exc |-> "none", out |-> <<>>]

----------------------------------------------------------------------------
(* dict[key] = value *)
DictSet(d, key, value) ==
  [k \in DOMAIN d \cup {key} |-> IF k = key THEN value ELSE d[k]]

(* One pass of the for loop of get_multiple_stocks_data over symbol, given *)
(* r, what get_stock_data did: the dict and the lines printed.              *)
loop_body(d, symbol, r) ==
  IF r.exc # "none"
    THEN [stock_data |-> d, out |-> r.out \o <<<<"Error fetching", symbol>>>>]
  ELSE IF r.ret # None
    THEN [stock_data |-> DictSet(d, symbol, r.ret.data), out |-> r.out]
  ELSE [stock_data |-> d, out |-> r.out]

----------------------------------------------------------------------------
(* Actions: one per facade call.  Each takes the sets its inputs are drawn *)
(* from, so that a specification can give it a wide or a narrow range.     *)
(* The caller makes one call at a time: a call starts when no result is    *)
(* pending (op = "none") and CallEnds drops the result of the last one;    *)
(* nothing of a call outlives it but self.nse_stocks.                      *)

Ready == pc = "idle" /\ op = "none"

Returns(o, a, r) ==
  /\ op' = o
  /\ args' = a
  /\ ret' = r.ret
  /\ exc' = r.exc
  /\ stdout' = r.out

(* The pandas call of _resample_to_4h can raise only where it is made. *)
Resamples(interval, resp) ==
  resp.kind = "data" /\ resp.data # <<>> /\ interval = "4h"

(* ret is the content of the list at the return; held records that the   *)
(* caller now has the list object itself, not a copy.                     *)
GetNseStockList ==
  /\ Ready
  /\ Returns("get_nse_stock_list", <<>>, [ret |-> nse_stocks, exc |-> "none", out |-> <<>>])
  /\ held' = TRUE
  /\ UNCHANGED <<nse_stocks, nmut, pc, idx, stock_data, attempts>>

GetStockData(Syms, Pers, Ints, Resps, n) ==
  /\ Ready
  /\ \E symbol \in Syms, period \in Pers, interval \in Ints, clean \in Resps,
        raises \in BOOLEAN :
     \E resp \in Answers(clean, n) :
       /\ raises => Resamples(interval, resp)
       /\ LET r == get_stock_data(symbol, period, interval, resp, raises)
          IN  Returns("get_stock_data",
                      [symbol |-> symbol, period |-> period, interval |-> interval,
                       resp |-> resp, raises |-> raises, req |-> r.req,
                       resampled |-> r.resampled],
                      r)
  /\ UNCHANGED <<nse_stocks, held, nmut, pc, idx, stock_data, attempts>>

ResampleTo4h(Fs, n) ==
  /\ Ready
  /\ \E clean \in Fs, raises \in BOOLEAN :
     \E hourly_data \in WithMissing(clean, n) :
       Returns("_resample_to_4h", [hourly_data |-> hourly_data, raises |-> raises],
               resample_to_4h(hourly_data, raises))
  /\ UNCHANGED <<nse_stocks, held, nmut, pc, idx, stock_data, attempts>>

ValidateSymbol(Syms, Resps, n) ==
  /\ Ready
  /\ \E symbol \in Syms, clean \in Resps :
     \E resp \in Answers(clean, n) :
       LET r == validate_symbol(symbol, resp)
       IN  Returns("validate_symbol",
                   [symbol |-> symbol, resp |-> resp, req |-> r.req], r)
  /\ UNCHANGED <<nse_stocks, held, nmut, pc, idx, stock_data, attempts>>

GetLatestPrice(Syms, Qs) ==
  /\ Ready
  /\ \E symbol \in Syms, resp \in Qs :
       Returns("get_latest_price", [symbol |-> symbol, resp |-> resp],
               get_latest_price(symbol, resp))
  /\ UNCHANGED <<nse_stocks, held, nmut, pc, idx, stock_data, attempts>>

CheckMarketHours(Cs) ==
  /\ Ready
  /\ \E now \in Cs :
       Returns("check_market_hours", [now |-> now], check_market_hours(now))
  /\ UNCHANGED <<nse_stocks, held, nmut, pc, idx, stock_data, attempts>>

(* get_multiple_stocks_data: entry, one action per pass of the loop, return. *)
GetMultipleStocksData(Lists, Pers, Ints) ==
  /\ Ready
  /\ \E symbols \in Lists, period \in Pers, interval \in Ints :
       /\ op' = "get_multiple_stocks_data"
       /\ args' = [symbols |-> symbols, period |-> period, interval |-> interval]
  /\ ret' = None
  /\ exc' = "none"
  /\ stdout' = <<>>
  /\ stock_data' = <<>>
  /\ attempts' = <<>>
  /\ idx' = 1
  /\ pc' = "loop"
  /\ UNCHANGED <<nse_stocks, held, nmut>>

(* The loop leaving at the first symbol that gives nothing (break). *)
LoopStep_break_on_failure(Resps) ==
  /\ pc = "loop"
  /\ idx <= Len(args.symbols)
  /\ \E resp \in Resps, raises \in BOOLEAN :
       /\ raises => Resamples(args.interval, resp)
       /\ LET symbol == args.symbols[idx]
              r == get_stock_data(symbol, args.period, args.interval, resp, raises)
              b == loop_body(stock_data, symbol, r)
          IN  /\ stock_data' = b.stock_data
              /\ stdout' = stdout \o b.out
              /\ attempts' = Append(attempts, [symbol |-> symbol, resp |-> resp,
                                               got |-> r.ret, at |-> idx])
              /\ idx' = IF r.ret = None THEN Len(args.symbols) + 1 ELSE idx + 1
  /\ UNCHANGED <<nse_stocks, held, nmut, op, args, ret, exc, pc>>

LoopStep(Resps) ==
  /\ pc = "loop"
  /\ idx <= Len(args.symbols)
  /\ \E resp \in Resps, raises \in BOOLEAN :
       /\ raises => Resamples(args.interval, resp)
       /\ LET symbol == args.symbols[idx]
              r == get_stock_data(symbol, args.period, args.interval, resp, raises)
              b == loop_body(stock_data, symbol, r)
          IN  /\ stock_data' = b.stock_data
              /\ stdout' = stdout \o b.out
              /\ attempts' = Append(attempts, [symbol |-> symbol, resp |-> resp,
                                               got |-> r.ret, at |-> idx])
  /\ idx' = idx + 1
  /\ UNCHANGED <<nse_stocks, held, nmut, op, args, ret, exc, pc>>

LoopExit ==
  /\ pc = "loop"
  /\ idx > Len(args.symbols)
  /\ ret' = [kind |-> "dict", dict |-> stock_data]
  /\ pc' = "idle"
  /\ UNCHANGED <<nse_stocks, held, nmut, op, args, exc, stdout, idx, stock_data,
                 attempts>>

CallEnds ==
  /\ pc = "idle"
  /\ op # "none"
  /\ op' = "none"
  /\ args' = <<>>
  /\ ret' = None
  /\ exc' = "none"
  /\ stdout' = <<>>
  /\ idx' = 1
  /\ stock_data' = <<>>
  /\ attempts' = <<>>
  /\ UNCHANGED <<nse_stocks, held, nmut, pc>>

(* A caller that holds the list get_nse_stock_list returned changes it in  *)
(* place (append, pop, reverse): it is the object self.nse_stocks itself.  *)
Reverse(q) == [i \in 1..Len(q) |-> q[Len(q) + 1 - i]]

CallerMutates ==
  /\ pc = "idle"
  /\ held
  /\ nmut < MaxMutations
  /\ \/ nse_stocks' = Append(nse_stocks, "NEW.NS")
     \/ nse_stocks # <<>> /\ nse_stocks' = SubSeq(nse_stocks, 1, Len(nse_stocks) - 1)
     \/ nse_stocks' = Reverse(nse_stocks)
  /\ nmut' = nmut + 1
  /\ UNCHANGED <<held, op, args, ret, exc, stdout, pc, idx, stock_data, attempts>>

----------------------------------------------------------------------------
(* State after DataFetcher(): __init__ loads the list; nothing called yet. *)
Init ==
  /\ nse_stocks = NSE_STOCKS
  /\ held = FALSE
  /\ nmut = 0
  /\ op = "none"
  /\ args = <<>>
  /\ ret = None
  /\ exc = "none"
  /\ stdout = <<>>
  /\ pc = "idle"
  /\ idx = 1
  /\ stock_data = <<>>
  /\ attempts = <<>>

(* Narrow input ranges, for the specifications of the whole facade. *)
GoodFrame == Frame({0, 1}, TRUE)
NanFrame == Blank(Frame({0}, TRUE), {<<1, "Close">>})
FewResponses == {Error, Answer(<<>>), Answer(GoodFrame), Answer(NanFrame)}
FewQuotes ==
  {Error, [kind |-> "info", info |-> <<>>],
   [kind |-> "info", info |-> [k \in {"currentPrice", "previousClose"} |->
                                 IF k = "currentPrice" THEN 100 ELSE 90]]}
FewClocks ==
  {c \in Clocks : c.weekday \in {2, 5} /\ c.hour \in {10, 16} /\ c.minute = 0
                  /\ c.second = 0 /\ c.microsecond = 0}
(* A listed symbol and one the provider does not know. *)
BatchSymbols == {"RELIANCE.NS", "BOGUS.NS"}
SymbolLists == UNION {[1..n -> BatchSymbols] : n \in 0..MaxSymbols}

(* The whole facade and its caller. *)
Next ==
  \/ GetNseStockList
  \/ GetStockData({"RELIANCE.NS"}, {"60d"}, {"1d", "4h"}, FewResponses, 0)
  \/ ResampleTo4h({<<>>, GoodFrame}, 0)
  \/ ValidateSymbol({"RELIANCE.NS"}, FewResponses, 0)
  \/ GetLatestPrice({"RELIANCE.NS"}, FewQuotes)
  \/ CheckMarketHours(FewClocks)
  \/ GetMultipleStocksData({<<"RELIANCE.NS">>}, {"60d"}, {"1d"})
  \/ LoopStep({Error, Answer(GoodFrame)})
  \/ LoopExit
  \/ CallerMutates
  \/ CallEnds

Spec == Init /\ [][Next]_vars

(* Single-symbol history calls over every frame. *)
NextSeries ==
  \/ GetStockData(BatchSymbols, {"60d"}, Intervals, CleanResponses, MaxMissing)
  \/ GetStockData(BatchSymbols, {"60d"}, Intervals, {Answer(FullDay)}, 0)
  \/ ResampleTo4h(CleanFrames, MaxMissing)
  \/ ResampleTo4h({FullDay}, 0)
  \/ ValidateSymbol(BatchSymbols, CleanResponses, MaxMissing)
  \/ CallEnds

SpecSeries == Init /\ [][NextSeries]_vars

(* The batch fetch. *)
NextBatch ==
  \/ GetMultipleStocksData(SymbolLists, {"60d"}, {"1d", "4h"})
  \/ LoopStep(FewResponses)
  \/ LoopExit
  \/ CallEnds

SpecBatch == Init /\ [][NextBatch]_vars
FairBatch == SpecBatch /\ WF_vars(LoopStep(FewResponses)) /\ WF_vars(LoopExit)

(* The latest-price snapshot. *)
NextPrice == GetLatestPrice(Symbols, Quotes) \/ CallEnds

SpecPrice == Init /\ [][NextPrice]_vars

(* The market-hours check over the local clock. *)
NextMarket == CheckMarketHours(Clocks) \/ CallEnds

SpecMarket == Init /\ [][NextMarket]_vars

----------------------------------------------------------------------------
(* Properties of the single-symbol history calls (SpecSeries) *)

NoRows(resp) == resp.kind = "data" /\ resp.data = <<>>
Failed(resp) == resp.kind = "error"

(* C3: get_stock_data returns None whenever the provider returns no rows or *)
(* raises; the error is printed and no exception reaches the caller.        *)
C3_AbsentOnEmptyOrError ==
  op = "get_stock_data" =>
    /\ exc = "none"
    /\ (Failed(args.resp) \/ NoRows(args.resp)) => ret = None
    /\ Failed(args.resp) => stdout = <<<<"Error fetching data for", args.symbol>>>>

C3_Witness ==
  /\ op = "get_stock_data"
  /\ Failed(args.resp)
  /\ ret = None
  /\ stdout # <<>>
  /\ exc = "none"

(* What a 4-hour aggregation of the hourly frame s is, stated from the     *)
(* rows: bin b holds the rows of hours b..b+3, b a multiple of 4.          *)
RowsIn(s, b) == {i \in 1..Len(s) : b <= s[i].t /\ s[i].t <= b + 3}
Present(s, b, f) == {i \in RowsIn(s, b) : s[i][f] # NaN}
Bins(s) == {b \in 0..(IF s = <<>> THEN 0 ELSE s[Len(s)].t) : b % 4 = 0}

RECURSIVE SumOver(_, _, _)
SumOver(s, I, f) ==
  IF I = {} THEN 0
  ELSE LET i == CHOOSE x \in I : TRUE IN s[i][f] + SumOver(s, I \ {i}, f)

Ascending(out) == \A k \in 1..(Len(out) - 1) : out[k].t < out[k + 1].t
Times(out) == {out[k].t : k \in 1..Len(out)}

(* out aggregates s, missing values skipped: a bin is kept iff each of     *)
(* open, high, low, close has a value in it.                               *)
KeptBins(s) ==
  {b \in Bins(s) : \A f \in {"Open", "High", "Low", "Close"} : Present(s, b, f) # {}}

Aggregates(out, s) ==
  /\ Ascending(out)
  /\ Times(out) = KeptBins(s)
  /\ \A k \in 1..Len(out) :
       LET b == out[k].t
       IN  /\ out[k].Open = s[Min(Present(s, b, "Open"))].Open
           /\ out[k].High = Max({s[i].High : i \in Present(s, b, "High")})
           /\ out[k].Low = Min({s[i].Low : i \in Present(s, b, "Low")})
           /\ out[k].Close = s[Max(Present(s, b, "Close"))].Close
           /\ out[k].Volume = SumOver(s, Present(s, b, "Volume"), "Volume")

(* out aggregates s as C5 words it: every bin with a row is kept, and its  *)
(* values come from the bin's first and last row and from all its rows.    *)
AggregatesAllRows(out, s) ==
  /\ Ascending(out)
  /\ Times(out) = {b \in Bins(s) : RowsIn(s, b) # {}}
  /\ \A k \in 1..Len(out) :
       LET b == out[k].t
       IN  /\ out[k].Open = s[Min(RowsIn(s, b))].Open
           /\ out[k].High = Max({s[i].High : i \in RowsIn(s, b)})
           /\ out[k].Low = Min({s[i].Low : i \in RowsIn(s, b)})
           /\ out[k].Close = s[Max(RowsIn(s, b))].Close
           /\ out[k].Volume = SumOver(s, RowsIn(s, b), "Volume")

(* The 24 rows of one day give 6 rows, each aggregating its 4 hours. *)
SixBuckets(out) ==
  /\ Len(out) = 6
  /\ \A k \in 1..6 :
       /\ out[k].t = 4 * (k - 1)
       /\ out[k].Open = FullDay[4 * k - 3].Open
       /\ out[k].Close = FullDay[4 * k].Close
       /\ out[k].High = FullDay[4 * k].High
       /\ out[k].Low = FullDay[4 * k - 3].Low
       /\ out[k].Volume = FullDay[4 * k - 3].Volume + FullDay[4 * k - 2].Volume
                          + FullDay[4 * k - 1].Volume + FullDay[4 * k].Volume

(* C5 as stated: _resample_to_4h (when the pandas call does not fail, the  *)
(* case of C6) outputs, for every 4-hour bin with a row, open = first      *)
(* row's open, high = max, low = min, close = last row's close, volume =   *)
(* sum; 24 rows of a day give 6 rows; output ascending.                    *)
C5_Original ==
  (op = "_resample_to_4h" /\ ~args.raises) =>
    /\ AggregatesAllRows(ret, args.hourly_data)
    /\ args.hourly_data = FullDay => SixBuckets(ret)

(* C5 amended: when the pandas call does not fail, each value is taken     *)
(* over the bin's non-missing values (first/last non-missing open/close),  *)
(* and a bin is dropped when open, high, low or close has none.            *)
C5_AggregatesPresentValues ==
  (op = "_resample_to_4h" /\ ~args.raises) =>
    /\ Aggregates(ret, args.hourly_data)
    /\ args.hourly_data = FullDay => SixBuckets(ret)
    /\ (\A i \in 1..Len(args.hourly_data) : IsComplete(args.hourly_data[i]))
         => AggregatesAllRows(ret, args.hourly_data)

C5_Witness ==
  /\ op = "_resample_to_4h"
  /\ ~args.raises
  /\ args.hourly_data = FullDay
  /\ Len(ret) = 6

(* C6: _resample_to_4h never raises; when the pandas call fails it returns *)
(* the hourly frame unchanged, and an empty frame gives an empty frame.    *)
C6_FallbackToHourly ==
  op = "_resample_to_4h" =>
    /\ exc = "none"
    /\ args.raises => ret = args.hourly_data
    /\ args.hourly_data = <<>> => ret = <<>>

C6_Witness ==
  /\ op = "_resample_to_4h"
  /\ args.raises
  /\ Len(args.hourly_data) = 2
  /\ ret = args.hourly_data
  /\ exc = "none"

(* C9: validate_symbol asks for the trailing 5 days and returns TRUE iff   *)
(* the provider returned at least one row; FALSE on an empty frame or an   *)
(* error; it never raises.                                                 *)
C9_ValidIffRows ==
  op = "validate_symbol" =>
    /\ exc = "none"
    /\ args.req.period = "5d"
    /\ ret = (args.resp.kind = "data" /\ args.resp.data # <<>>)

C9_Witness ==
  /\ op = "validate_symbol"
  /\ NoRows(args.resp)
  /\ ret = FALSE

(* out is s with exactly the rows that have a missing field removed. *)
OnlyCompleteRowsOf(out, s) ==
  /\ Ascending(out)
  /\ {out[k] : k \in 1..Len(out)} = {s[i] : i \in {j \in 1..Len(s) : IsComplete(s[j])}}

(* C4 as stated: for "4h" the provider is asked for "1h" and the returned  *)
(* series is the 4-hour aggregation of the answer; for any other interval  *)
(* the provider is asked for that interval and nothing is resampled; a     *)
(* returned series has no row with a missing field.                        *)
C4_Original ==
  op = "get_stock_data" =>
    /\ args.interval = "4h" =>
         /\ args.req.interval = "1h"
         /\ ret # None => Aggregates(ret.data, args.resp.data)
    /\ args.interval # "4h" =>
         /\ args.req.interval = args.interval
         /\ ~args.resampled
         /\ ret # None => OnlyCompleteRowsOf(ret.data, args.resp.data)
    /\ ret # None => \A k \in 1..Len(ret.data) : IsComplete(ret.data[k])

(* C4 amended: as stated, except that for "4h" the returned series is the  *)
(* hourly answer itself, incomplete rows removed, when the aggregation     *)
(* fails.                                                                  *)
C4_AggregatesOrFallsBack ==
  op = "get_stock_data" =>
    /\ args.interval = "4h" =>
         /\ args.req.interval = "1h"
         /\ (ret # None /\ ~args.raises) => Aggregates(ret.data, args.resp.data)
         /\ (ret # None /\ args.raises) =>
              OnlyCompleteRowsOf(ret.data, args.resp.data)
    /\ args.interval # "4h" =>
         /\ args.req.interval = args.interval
         /\ ~args.resampled
         /\ ret # None => OnlyCompleteRowsOf(ret.data, args.resp.data)
    /\ ret # None => \A k \in 1..Len(ret.data) : IsComplete(ret.data[k])

C4_Witness ==
  /\ op = "get_stock_data"
  /\ args.interval = "4h"
  /\ args.req.interval = "1h"
  /\ ~args.raises
  /\ ret # None
  /\ Len(args.resp.data) = 2
  /\ \E i \in 1..2 : ~IsComplete(args.resp.data[i])
  /\ Len(ret.data) = 1

----------------------------------------------------------------------------
(* Properties of the batch fetch (SpecBatch, FairBatch) *)

InBatch == op = "get_multiple_stocks_data"
BatchReturned == InBatch /\ pc = "idle"

(* C1: get_stock_data is attempted exactly once for each element of the    *)
(* list, in list order, whatever the provider does: a failure neither      *)
(* ends the batch (the loop reaches its return with every element          *)
(* attempted and a mapping returned) nor is retried.                       *)
C1_OncePerSymbolInOrder ==
  /\ [](InBatch =>
          /\ Len(attempts) = idx - 1
          /\ \A k \in 1..Len(attempts) :
               attempts[k].symbol = args.symbols[k] /\ attempts[k].at = k
          /\ BatchReturned =>
               /\ Len(attempts) = Len(args.symbols)
               /\ ret.kind = "dict"
               /\ exc = "none")
  /\ (pc = "loop") ~> BatchReturned

C1_Witness ==
  /\ BatchReturned
  /\ Len(args.symbols) = 3
  /\ Len(attempts) = 3
  /\ Failed(attempts[1].resp)
  /\ NoRows(attempts[2].resp)
  /\ attempts[3].got # None
  /\ DOMAIN ret.dict = {args.symbols[3]}

(* C2: the returned mapping has only input symbols as keys, has no entry   *)
(* for a symbol whose fetch raised or gave no data, and every entry is a   *)
(* series that holds data.                                                 *)
C2_Original ==
  BatchReturned =>
    /\ DOMAIN ret.dict \subseteq {args.symbols[k] : k \in 1..Len(args.symbols)}
    /\ \A s \in DOMAIN ret.dict : ret.dict[s] # <<>>
    /\ \A k \in 1..Len(attempts) :
         (Failed(attempts[k].resp) \/ NoRows(attempts[k].resp))
           => attempts[k].symbol \notin DOMAIN ret.dict

----------------------------------------------------------------------------
(* Properties of the latest-price snapshot (SpecPrice) *)

Quoted(info, key) == IF key \in DOMAIN info THEN info[key] ELSE 0

(* C7: change = current - previous close; change_percent = change /        *)
(* previous close * 100 when the previous close is nonzero (100 and 90     *)
(* give 10 and about 11.111) and 0, with no division by zero, when it is   *)
(* zero or missing; a missing field is 0; None only on a provider error.   *)
C7_Snapshot ==
  op = "get_latest_price" =>
    /\ exc = "none"
    /\ (ret = None) <=> Failed(args.resp)
    /\ ret # None =>
         LET info == args.resp.info
             cur == Quoted(info, "currentPrice")
             prev == Quoted(info, "previousClose")
             pct == ret.change_percent
         IN  /\ ret.symbol = args.symbol
             /\ ret.current_price = cur
             /\ ret.previous_close = prev
             /\ ret.volume = Quoted(info, "volume")
             /\ ret.market_cap = Quoted(info, "marketCap")
             /\ ret.change = cur - prev
             /\ pct.den # 0
             /\ prev # 0 => pct.num * prev = (cur - prev) * 100 * pct.den
             /\ prev = 0 => pct.num = 0
             /\ (cur = 100 /\ prev = 90) =>
                  /\ ret.change = 10
                  /\ 11111 * pct.den <= 1000 * pct.num
                  /\ 1000 * pct.num <= 11112 * pct.den

C7_Witness ==
  /\ op = "get_latest_price"
  /\ ret # None
  /\ "previousClose" \in DOMAIN args.resp.info
  /\ args.resp.info["previousClose"] = 0
  /\ ret.current_price = 100
  /\ ret.change = 100
  /\ ret.change_percent.num = 0

----------------------------------------------------------------------------
(* Properties of the market-hours check (SpecMarket) *)

MinuteOfDay(now) == now.hour * 60 + now.minute
Weekday(now) == now.weekday \in 0..4

Examples ==
  /\ (args.now.weekday = 5 /\ args.now.hour = 10 /\ args.now.minute = 0) => ~ret
  /\ (args.now.weekday = 2 /\ args.now.hour = 10 /\ args.now.minute = 0) => ret
  /\ (args.now.weekday = 2 /\ args.now.hour = 16 /\ args.now.minute = 0) => ~ret

(* C8 as stated: TRUE iff a weekday and within 09:15-15:30, the minutes    *)
(* 09:15 and 15:30 and every second within them included.                  *)
C8_Original ==
  op = "check_market_hours" =>
    /\ ret = (/\ Weekday(args.now)
              /\ 9 * 60 + 15 <= MinuteOfDay(args.now)
              /\ MinuteOfDay(args.now) <= 15 * 60 + 30)
    /\ Examples

(* C8 amended: TRUE iff a weekday and from 09:15:00 up to 15:30:00 sharp:  *)
(* of the minute 15:30 only its first instant is included.                 *)
C8_UntilCloseSharp ==
  op = "check_market_hours" =>
    /\ ret = (/\ Weekday(args.now)
              /\ 9 * 60 + 15 <= MinuteOfDay(args.now)
              /\ \/ MinuteOfDay(args.now) < 15 * 60 + 30
                 \/ /\ MinuteOfDay(args.now) = 15 * 60 + 30
                    /\ args.now.second = 0
                    /\ args.now.microsecond = 0)
    /\ exc = "none"
    /\ Examples

C8_Witness ==
  /\ op = "check_market_hours"
  /\ args.now.weekday = 2
  /\ MinuteOfDay(args.now) = 15 * 60 + 30
  /\ args.now.second = 0
  /\ args.now.microsecond = 0
  /\ ret

----------------------------------------------------------------------------
(* Properties of the symbol list (Spec) *)

(* C10: after any sequence of facade calls and of caller uses of their     *)
(* results, get_nse_stock_list returns the symbols of the first call, in   *)
(* the same order.                                                         *)
C10_Original ==
  op = "get_nse_stock_list" => ret = NSE_STOCKS

====
